---- MODULE Spec2Model ----
(***************************************************************************)
(* Voice activity detection and pause segmentation of lamatic-voiceAO.     *)
(*                                                                         *)
(* The module models the VoiceCapture engine (lib/voice-capture.ts and its *)
(* browser twin voice-capture.js).  A VoiceCapture instance is the record  *)
(* vc; every method of the class is an operator that maps the instance     *)
(* before the call to the instance after it, written statement by          *)
(* statement after the source.                                             *)
(*                                                                         *)
(* Numbers.  Energies are IEEE doubles in the source; here they are        *)
(* integers in units of 1e-3 (0.015 is 15).  Ratios and factors are in     *)
(* tenths (2.5 is 25), products are truncated to the unit.  Times are      *)
(* integers in milliseconds.                                               *)
(*                                                                         *)
(* The older engines with a drifting noise floor (the two RealtimeKitClient *)
(* classes and AudioCapture) are the record ad; their energies are in units *)
(* of 1e-6 (0.008 is 8000) so that the factors 0.998 and 0.995 are seen.    *)
(***************************************************************************)
EXTENDS Integers, Sequences, FiniteSets, TLC

VARIABLES
    variant,        \* "ts": lib/voice-capture.ts, "js": voice-capture.js
    vc,             \* the VoiceCapture instance (its fields)
    clock,          \* performance.now()
    frameTs,        \* timestamp handed to the callbacks of the current frame
    raf,            \* requestAnimationFrame queue of the page
    pendingResume,  \* startWithMediaStream calls suspended at await resume()
    pendingGum,     \* start() calls suspended at await getUserMedia()
    gumCount,       \* microphone streams handed out by getUserMedia so far
    tracksStopped,  \* media streams whose tracks have been stopped
    openContexts,   \* AudioContexts created and not closed
    h,              \* history of the run (observation only)
    ad              \* the RealtimeKitClient or AudioCapture instance of the older pages

vars == <<variant, vc, clock, frameTs, raf, pendingResume, pendingGum,
          gumCount, tracksStopped, openContexts, h, ad>>

----------------------------------------------------------------------------
(* Bounds of the model *)

MaxTime == 8
MaxLifeTime == 3
MaxOps == 2
MaxLifeOps == 3
MaxAdOps == 2
MaxAdTicks == 5
MaxDebounceTicks == 7
MaxCaptureTicks == 5
MaxTieTime == 6
MaxTieOps == 2
MaxTwinTime == 7
MaxTwinOps == 2
MaxSessionTime == 5
MaxSessionOps == 2

\* performance.now() inside a callback is this much later than the frame's timestamp
Jitter == {0}

\* time between one frame and the next
FrameGaps == {1, 2}
LifecycleGaps == {1}

\* time between two callbacks of setInterval(analyze, 50): on time, or throttled
AdGaps == {50, 250}

----------------------------------------------------------------------------
(* Values *)

Null == <<>>
Some(x) == <<x>>
Val(x) == x[1]

Max(a, b) == IF a >= b THEN a ELSE b

\* x * (r10 / 10), truncated to the unit
Times10(x, r10) == (x * r10) \div 10

CallerStream == [owner |-> "caller", id |-> 0]
MicStream(n) == [owner |-> "engine", id |-> n]

\* raw RMS energies the analyser can deliver: 0 and 0.032
RawEnergies == {0, 32}

\* two runs fed the same frames: frames 2 apart, performance.now() read in the
\* callback up to 1 after the timestamp of the frame
TwinGaps == {2}
TwinJitter == {0, 1}

\* raw energies that land on the thresholds 0.015 and 0.030 of TieConfig
TieRawEnergies == {0, 15, 30, 32}

\* raw RMS energies fed to the older engines, in 1e-6
AdRawEnergies == {0, 100000}

\* raw energies fed to the engines with a debounce: silence, a sound that keeps
\* the smoothed energy between the thresholds, a loud sound
DebounceRawEnergies == {0, 31000, 67000}
DebounceGaps == {250}

\* raw energies fed to the AudioCapture with the MediaRecorder: silence, room noise, speech
CaptureRawEnergies == {0, 10000, 40000}

\* Date.now() when the page of an older engine is loaded: never 0, the value
\* these engines use for "no time recorded"
Epoch == 1000

\* configuration of the older engines, times in ms
AdConfig == [pauseDuration |-> 100, calibrationDuration |-> 50]

\* the defaults of the constructor
DefaultConfig ==
    [ silenceThreshold    |-> 15,
      noiseMargin         |-> 25,
      hysteresisRatio     |-> 13,
      pauseDuration       |-> 3000,
      speechMinDuration   |-> 300,
      calibrationDuration |-> 500,
      analysisInterval    |-> 50,
      smoothingFactor     |-> 7 ]

\* configurations passed to the constructor, times in ms
Timed(pause, calibration) ==
    [DefaultConfig EXCEPT !.pauseDuration = pause, !.speechMinDuration = 2,
                          !.calibrationDuration = calibration, !.analysisInterval = 1]

Configs ==
    { [Timed(2, 2) EXCEPT !.smoothingFactor = 0],
      [Timed(2, 2) EXCEPT !.smoothingFactor = 5],
      [Timed(1, 1) EXCEPT !.smoothingFactor = 0, !.hysteresisRatio = 10],
      [Timed(2, 2) EXCEPT !.smoothingFactor = 0, !.analysisInterval = 2] }

\* the configuration of the life-cycle runs
LifecycleConfig == [Timed(2, 1) EXCEPT !.smoothingFactor = 0]

\* hysteresisRatio 2.0: effectiveThreshold 0.015, speechThreshold 0.030
TieConfig == [Timed(2, 2) EXCEPT !.smoothingFactor = 0, !.hysteresisRatio = 20]

\* the configuration both runs of a twin are given
TwinConfig == [Timed(2, 3) EXCEPT !.smoothingFactor = 0]

ConfigKeys == DOMAIN DefaultConfig

\* partial configurations passed to updateConfig: the keys present and their values
PartialConfigs ==
    { [keys |-> {"hysteresisRatio"}, val |-> [DefaultConfig EXCEPT !.hysteresisRatio = 10]],
      [keys |-> {"noiseMargin"},     val |-> [DefaultConfig EXCEPT !.noiseMargin = 30]],
      [keys |-> {"pauseDuration"},   val |-> [DefaultConfig EXCEPT !.pauseDuration = 2]] }

----------------------------------------------------------------------------
(* Callbacks and calls on external objects made by a step *)

Ev(type, o, sil, energy) ==
    [ type          |-> type,
      segmentCount  |-> o.segmentCount,
      silenceMs     |-> sil,          \* now - silenceStartTime
      \* the silenceDuration passed to the handler, as a fraction:
      \* checkPause passes silenceDuration / 1000, processVAD passes it as it is
      silenceDuration |-> [num |-> sil, den |-> IF type = "onPauseDetected" THEN 1000 ELSE 1],
      energy        |-> energy,
      noiseFloor    |-> o.noiseFloor,
      threshold     |-> o.effectiveThreshold,
      state         |-> o.state,
      isSpeaking    |-> o.state = "speaking" ]

fire(o, type, sil, energy) == [o EXCEPT !.fired = Append(@, Ev(type, o, sil, energy))]

Fired(o, type) == { i \in 1..Len(o.fired) : o.fired[i].type = type }

\* the PAUSE control message the session sends for a pause event
PauseMessage(data) ==
    [ type            |-> "PAUSE",
      segment         |-> data.segmentCount,
      silenceDuration |-> data.silenceDuration ]

----------------------------------------------------------------------------
(* VoiceCapture *)

VoiceCaptureNew(config) ==
    [ config               |-> config,
      audioContext         |-> "null",
      sourceNode           |-> FALSE,
      analyserNode         |-> FALSE,
      timeDomainData       |-> FALSE,
      externalMediaStream  |-> Null,
      ownsMediaStream      |-> FALSE,
      noiseFloor           |-> config.silenceThreshold,
      isCalibrating        |-> FALSE,
      calibrationSamples   |-> <<>>,
      effectiveThreshold   |-> config.silenceThreshold,
      speechThreshold      |-> Times10(config.silenceThreshold, config.hysteresisRatio),
      state                |-> "idle",
      stateStartTime       |-> 0,
      smoothedEnergy       |-> 0,
      peakEnergy           |-> 0,
      silenceStartTime     |-> Null,
      lastSpeechTime       |-> Null,
      pauseTriggered       |-> FALSE,
      segmentCount         |-> 0,
      lastAnalysisTime     |-> 0,
      animationFrameId     |-> FALSE,
      isRunning            |-> FALSE,
      fired                |-> <<>> ]

initializeState(o) ==
    [o EXCEPT !.isRunning = TRUE,
              !.smoothedEnergy = 0,
              !.peakEnergy = 0,
              !.silenceStartTime = Null,
              !.lastSpeechTime = Null,
              !.pauseTriggered = FALSE,
              !.segmentCount = 0]

startCalibration(o, now) ==
    [o EXCEPT !.state = "calibrating",
              !.stateStartTime = now,
              !.calibrationSamples = <<>>,
              !.isCalibrating = TRUE]

buildAudioGraph(o) ==
    IF o.audioContext = "null" THEN o
    ELSE [o EXCEPT !.sourceNode = TRUE, !.analyserNode = TRUE, !.timeDomainData = TRUE]

\* [...samples].sort((a, b) => a - b)
RECURSIVE Insert(_, _)
Insert(s, x) ==
    IF s = <<>> THEN <<x>>
    ELSE IF x < Head(s) THEN <<x>> \o s
    ELSE <<Head(s)>> \o Insert(Tail(s), x)

RECURSIVE Sorted(_)
Sorted(s) == IF s = <<>> THEN <<>> ELSE Insert(Sorted(Tail(s)), Head(s))

MinNoiseFloor == 1

ThresholdFor(noiseFloor, config) ==
    Max(Times10(noiseFloor, config.noiseMargin), config.silenceThreshold)

\* variant: the middle sample is taken without sorting
finishCalibrationUnsorted(o, now) ==
    LET n == Len(o.calibrationSamples)
        median == o.calibrationSamples[(n \div 2) + 1]
        nf == Max(median, MinNoiseFloor)
        eff == ThresholdFor(nf, o.config)
        o1 == IF n > 0
              THEN [o EXCEPT !.noiseFloor = nf,
                             !.effectiveThreshold = eff,
                             !.speechThreshold = Times10(eff, o.config.hysteresisRatio)]
              ELSE o
    IN [o1 EXCEPT !.isCalibrating = FALSE,
                  !.state = "silence",
                  !.stateStartTime = now,
                  !.calibrationSamples = <<>>]

finishCalibration(o, now) ==
    LET n == Len(o.calibrationSamples)
        median == Sorted(o.calibrationSamples)[(n \div 2) + 1]
        nf == Max(median, MinNoiseFloor)
        eff == ThresholdFor(nf, o.config)
        o1 == IF n > 0
              THEN [o EXCEPT !.noiseFloor = nf,
                             !.effectiveThreshold = eff,
                             !.speechThreshold = Times10(eff, o.config.hysteresisRatio)]
              ELSE o
    IN [o1 EXCEPT !.isCalibrating = FALSE,
                  !.state = "silence",
                  !.stateStartTime = now,
                  !.calibrationSamples = <<>>]

smoothEnergy(o, rawEnergy) ==
    [o EXCEPT !.smoothedEnergy =
                  (o.config.smoothingFactor * o.smoothedEnergy
                     + (10 - o.config.smoothingFactor) * rawEnergy) \div 10,
              !.peakEnergy = Max((o.peakEnergy * 995) \div 1000, rawEnergy)]

\* variant: the pause is due only after more than pauseDuration
PauseDueStrict(o, silenceDuration) == silenceDuration > o.config.pauseDuration

PauseDue(o, silenceDuration) == silenceDuration >= o.config.pauseDuration

\* variant: silence before any speech counts as a pause
checkPauseBeforeSpeech(o, now) ==
    IF o.pauseTriggered THEN o
    ELSE IF o.silenceStartTime = Null THEN o
    ELSE LET silenceDuration == now - Val(o.silenceStartTime)
         IN IF PauseDue(o, silenceDuration)
            THEN fire([o EXCEPT !.pauseTriggered = TRUE, !.segmentCount = @ + 1],
                      "onPauseDetected", silenceDuration, 0)
            ELSE o

\* variant: no pauseTriggered latch
checkPauseRefires(o, now) ==
    IF o.lastSpeechTime = Null THEN o
    ELSE IF o.silenceStartTime = Null THEN o
    ELSE LET silenceDuration == now - Val(o.silenceStartTime)
         IN IF PauseDue(o, silenceDuration)
            THEN fire([o EXCEPT !.pauseTriggered = TRUE, !.segmentCount = @ + 1],
                      "onPauseDetected", silenceDuration, 0)
            ELSE o

checkPause(o, now) ==
    IF o.pauseTriggered THEN o
    ELSE IF o.lastSpeechTime = Null THEN o
    ELSE IF o.silenceStartTime = Null THEN o
    ELSE LET silenceDuration == now - Val(o.silenceStartTime)
         IN IF PauseDue(o, silenceDuration)
            THEN fire([o EXCEPT !.pauseTriggered = TRUE, !.segmentCount = @ + 1],
                      "onPauseDetected", silenceDuration, 0)
            ELSE o

\* variant: an energy equal to the threshold counts as exceeding it
IsSpeakingInclusive(o, energy) ==
    IF o.state = "speaking"
    THEN energy >= o.effectiveThreshold
    ELSE energy >= o.speechThreshold

IsSpeaking(o, energy) ==
    IF o.state = "speaking"
    THEN energy > o.effectiveThreshold
    ELSE energy > o.speechThreshold

processVAD(o, energy, now) ==
    LET wasSpeaking == o.state = "speaking"
        isSpeaking == IsSpeaking(o, energy)
    IN IF isSpeaking
       THEN LET o1 == IF ~wasSpeaking
                      THEN fire([o EXCEPT !.state = "speaking",
                                          !.stateStartTime = now,
                                          !.pauseTriggered = FALSE],
                                "onSpeechStart",
                                IF o.silenceStartTime # Null /\ Val(o.silenceStartTime) # 0
                                THEN now - Val(o.silenceStartTime) ELSE 0,
                                energy)
                      ELSE o
            IN [o1 EXCEPT !.lastSpeechTime = Some(now), !.silenceStartTime = Null]
       ELSE LET o1 == IF wasSpeaking
                      THEN [o EXCEPT !.state = "silence",
                                     !.stateStartTime = now,
                                     !.silenceStartTime = Some(now)]
                      ELSE IF o.silenceStartTime = Null
                      THEN [o EXCEPT !.silenceStartTime = Some(now)]
                      ELSE o
            IN checkPause(o1, now)

\* variant: the loop analyses in every frame
Ungated(o, timestamp) == FALSE

\* the callback returns early, before any analysis, and schedules itself again
Gated(o, timestamp) == timestamp - o.lastAnalysisTime < o.config.analysisInterval

\* the callback schedules itself again
Reschedules(o, timestamp) ==
    /\ o.isRunning
    /\ \/ Gated(o, timestamp)
       \/ o.analyserNode /\ o.timeDomainData

\* variant: onEnergyUpdate is left out while calibrating
analyzeQuietCalibration(o, timestamp, now, rawEnergy) ==
    IF ~o.isRunning THEN o
    ELSE IF Gated(o, timestamp) THEN [o EXCEPT !.animationFrameId = TRUE]
    ELSE LET o1 == [o EXCEPT !.lastAnalysisTime = timestamp]
         IN IF ~(o1.analyserNode /\ o1.timeDomainData) THEN o1
            ELSE LET o2 == smoothEnergy(o1, rawEnergy)
                     energy == o2.smoothedEnergy
                     o3 == IF o2.state = "calibrating"
                           THEN LET o2a == [o2 EXCEPT !.calibrationSamples = Append(@, rawEnergy)]
                                IN IF now - o2a.stateStartTime >= o2a.config.calibrationDuration
                                   THEN finishCalibration(o2a, now)
                                   ELSE o2a
                           ELSE processVAD(o2, energy, now)
                     o4 == IF o2.state = "calibrating" THEN o3
                           ELSE fire(o3, "onEnergyUpdate", 0, energy)
                 IN [o4 EXCEPT !.animationFrameId = TRUE]

\* variant: the window ends only after more than calibrationDuration
analyzeLongerWindow(o, timestamp, now, rawEnergy) ==
    IF ~o.isRunning THEN o
    ELSE IF Gated(o, timestamp) THEN [o EXCEPT !.animationFrameId = TRUE]
    ELSE LET o1 == [o EXCEPT !.lastAnalysisTime = timestamp]
         IN IF ~(o1.analyserNode /\ o1.timeDomainData) THEN o1
            ELSE LET o2 == smoothEnergy(o1, rawEnergy)
                     energy == o2.smoothedEnergy
                     o3 == IF o2.state = "calibrating"
                           THEN LET o2a == [o2 EXCEPT !.calibrationSamples = Append(@, rawEnergy)]
                                IN IF now - o2a.stateStartTime > o2a.config.calibrationDuration
                                   THEN finishCalibration(o2a, now)
                                   ELSE o2a
                           ELSE processVAD(o2, energy, now)
                     o4 == fire(o3, "onEnergyUpdate", 0, energy)
                 IN [o4 EXCEPT !.animationFrameId = TRUE]

\* one run of the analyze callback of startAnalysisLoop
analyze(o, timestamp, now, rawEnergy) ==
    IF ~o.isRunning THEN o
    ELSE IF Gated(o, timestamp) THEN [o EXCEPT !.animationFrameId = TRUE]
    ELSE LET o1 == [o EXCEPT !.lastAnalysisTime = timestamp]
         IN IF ~(o1.analyserNode /\ o1.timeDomainData) THEN o1
            ELSE LET o2 == smoothEnergy(o1, rawEnergy)
                     energy == o2.smoothedEnergy
                     o3 == IF o2.state = "calibrating"
                           THEN LET o2a == [o2 EXCEPT !.calibrationSamples = Append(@, rawEnergy)]
                                IN IF now - o2a.stateStartTime >= o2a.config.calibrationDuration
                                   THEN finishCalibration(o2a, now)
                                   ELSE o2a
                           ELSE processVAD(o2, energy, now)
                     o4 == fire(o3, "onEnergyUpdate", 0, energy)
                 IN [o4 EXCEPT !.animationFrameId = TRUE]


startAnalysisLoop(o) == [o EXCEPT !.animationFrameId = TRUE]

\* variant: the engine starts in Silence, without a calibration window
startFinishSkipsCalibration(o, now) ==
    startAnalysisLoop([initializeState(buildAudioGraph(o)) EXCEPT !.state = "silence",
                                                                  !.stateStartTime = now])

\* startWithMediaStream from buildAudioGraph on: what runs once the context is ready
startFinish(o, now) ==
    startAnalysisLoop(startCalibration(initializeState(buildAudioGraph(o)), now))

\* startWithMediaStream up to the await: mediaStream is Null for a stream without
\* audio track, suspended tells the state of the AudioContext just created
StartReturnsEarly(o) == o.isRunning
StartThrows(o, mediaStream) == ~o.isRunning /\ mediaStream = Null
StartSuspends(o, mediaStream, suspended) ==
    ~o.isRunning /\ mediaStream # Null /\ suspended
StartCompletes(o, mediaStream, suspended) ==
    ~o.isRunning /\ mediaStream # Null /\ ~suspended

startWithMediaStream(o, mediaStream, suspended, now) ==
    IF o.isRunning THEN fire(o, "warn", 0, 0)
    ELSE IF mediaStream = Null THEN fire(o, "throw", 0, 0)
    ELSE LET o1 == [o EXCEPT !.externalMediaStream = mediaStream,
                             !.ownsMediaStream = FALSE,
                             !.audioContext = IF suspended THEN "suspended" ELSE "running"]
         IN IF suspended THEN o1 ELSE startFinish(o1, now)

\* variant: stop() stops the tracks of whatever stream it holds
StopsTracksAny(o) == o.externalMediaStream # Null

StopsTracks(o) == o.ownsMediaStream /\ o.externalMediaStream # Null

\* variant: stop() leaves the source node and the context in place
stopKeepsGraph(o) ==
    LET o1 == [o EXCEPT !.isRunning = FALSE, !.state = "idle"]
        o2 == IF o1.animationFrameId
              THEN fire([o1 EXCEPT !.animationFrameId = FALSE], "cancelAnimationFrame", 0, 0)
              ELSE o1
        o3 == IF o2.sourceNode THEN fire(o2, "disconnect", 0, 0) ELSE o2
        o4 == IF StopsTracks(o3) THEN fire(o3, "trackStop", 0, 0) ELSE o3
        o5 == [o4 EXCEPT !.externalMediaStream = Null, !.ownsMediaStream = FALSE]
    IN IF o5.audioContext # "null" THEN fire(o5, "close", 0, 0) ELSE o5

stop(o) ==
    LET o1 == [o EXCEPT !.isRunning = FALSE, !.state = "idle"]
        o2 == IF o1.animationFrameId
              THEN fire([o1 EXCEPT !.animationFrameId = FALSE], "cancelAnimationFrame", 0, 0)
              ELSE o1
        o3 == IF o2.sourceNode
              THEN fire([o2 EXCEPT !.sourceNode = FALSE], "disconnect", 0, 0)
              ELSE o2
        o4 == IF StopsTracks(o3) THEN fire(o3, "trackStop", 0, 0) ELSE o3
        o5 == [o4 EXCEPT !.externalMediaStream = Null, !.ownsMediaStream = FALSE]
        o6 == IF o5.audioContext # "null"
              THEN fire([o5 EXCEPT !.audioContext = "null"], "close", 0, 0)
              ELSE o5
    IN [o6 EXCEPT !.analyserNode = FALSE, !.timeDomainData = FALSE]

\* variant: recalibrate() empties the samples and leaves the state alone
recalibrateSamplesOnly(o, now) ==
    IF ~o.isRunning THEN o ELSE [o EXCEPT !.calibrationSamples = <<>>]

\* variant: recalibrate() starts over as start does
recalibrateFromScratch(o, now) ==
    IF ~o.isRunning THEN o ELSE startCalibration(initializeState(o), now)

recalibrate(o, now) == IF ~o.isRunning THEN o ELSE startCalibration(o, now)

\* voice-capture.js only
updateConfig(o, newConfig) ==
    LET config == [k \in ConfigKeys |->
                      IF k \in newConfig.keys THEN newConfig.val[k] ELSE o.config[k]]
        truthy(k) == k \in newConfig.keys /\ newConfig.val[k] # 0
        o1 == [o EXCEPT !.config = config]
        eff == ThresholdFor(o1.noiseFloor, config)
    IN IF truthy("noiseMargin") \/ truthy("silenceThreshold")
       THEN [o1 EXCEPT !.effectiveThreshold = eff,
                       !.speechThreshold = Times10(eff, config.hysteresisRatio)]
       ELSE o1

----------------------------------------------------------------------------
(* History of the run *)

Begin(o) == [o EXCEPT !.fired = <<>>]

Analysed(o2) == Fired(o2, "onEnergyUpdate") # {}
PausesFired(o2) == Cardinality(Fired(o2, "onPauseDetected"))

HInit ==
    [ lastOp           |-> "new",
      ops              |-> 0,      \* calls made by the caller so far
      prevState        |-> "idle", \* the state before the last step
      prevStateStart   |-> 0,      \* stateStartTime before the last step, in Calibrating
      prevNoiseFloor   |-> 0,      \* noiseFloor before the last step
      window           |-> Null,   \* the samples of the calibration window the last step finished
      stopRun          |-> 0,      \* consecutive stop() calls just made, up to 2
      legacyStart      |-> FALSE,  \* start() was called on the instance
      stopLast         |-> FALSE,  \* stop() was called and no start call was made since
      stoppedStream    |-> Null,   \* the stream a running instance held when stop() was just called
      callerStarted    |-> FALSE,  \* startWithMediaStream was called with the caller's stream
      pausesSinceStart |-> 0,      \* onPauseDetected invocations since the last start
      calibFrom        |-> 0,      \* time of the last start or recalibrate
      calibDone        |-> FALSE,  \* a calibration window completed since then
      speechSince      |-> FALSE,  \* Speaking was entered since then
      earlyBefore      |-> Null,   \* the instance before the callback just run, if it came early
      passedGate       |-> FALSE,  \* the callback just run went on to the analysis
      analysedAt       |-> Null,   \* timestamp of the last analysed tick
      tickGap          |-> Null,   \* the tick just run was analysed: time since the one before
      speakFrom        |-> Null,   \* time Speaking was entered, while in Speaking
      spokeMs          |-> 0,      \* time spent in Speaking by the last stay in it
      recalSpeaking    |-> FALSE,  \* recalibrate() hit Speaking and its window is not over
      episodeOpen      |-> FALSE,  \* Speaking->Silence happened, Silence->Speaking not yet
      episodeClean     |-> FALSE,  \* ... and every tick since stayed in Silence
      episodeStart     |-> 0,      \* time of that Speaking->Silence
      episodeSeg0      |-> 0,      \* segmentCount before it
      episodePauses    |-> 0,      \* onPauseDetected invocations of the episode
      episodeTicks     |-> 0,      \* analysed ticks of the episode
      episodeDue       |-> FALSE,  \* an analysed tick of the episode had now - t0 >= pauseDuration
      burstMs          |-> 0,      \* length of the run of ticks above speechThreshold in Silence
      burstFrom        |-> Null ]

CallerOps == {"startWithMediaStream", "stop", "recalibrate", "updateConfig", "start"}

\* op: the operation, o: the instance before, o2: after, now: time of the call,
\* began: the call ran initializeState, recal: the call ran startCalibration
HNext(op, o, o2, now, began, recal) ==
    LET analysed == op = "analyze" /\ Analysed(o2)
        opening  == analysed /\ o.state = "speaking" /\ o2.state = "silence"
        closing  == began \/ (analysed /\ o.state = "silence" /\ o2.state = "speaking")
        windowOver == analysed /\ o.state = "calibrating"
                        /\ now - h.calibFrom >= o.config.calibrationDuration
        above == analysed /\ o.state = "silence" /\ o2.smoothedEnergy > o.speechThreshold
        from == IF above THEN (IF h.burstFrom = Null THEN Some(now) ELSE h.burstFrom) ELSE Null
        due == analysed /\ now - (IF opening THEN now ELSE h.episodeStart) >= o.config.pauseDuration
    IN [ lastOp           |-> op,
         ops              |-> IF op \in CallerOps THEN h.ops + 1 ELSE h.ops,
         prevState        |-> o.state,
         prevStateStart   |-> IF o.state = "calibrating" THEN o.stateStartTime ELSE 0,
         prevNoiseFloor   |-> o.noiseFloor,
         window           |-> Null,
         stopRun          |-> IF op = "stop" THEN (IF h.stopRun < 2 THEN h.stopRun + 1 ELSE 2) ELSE 0,
         legacyStart      |-> h.legacyStart \/ op = "start",
         stopLast         |-> IF op = "stop" THEN TRUE
                              ELSE IF op \in {"startWithMediaStream", "start"} THEN FALSE
                              ELSE h.stopLast,
         stoppedStream    |-> IF op = "stop" /\ o.isRunning THEN o.externalMediaStream ELSE Null,
         callerStarted    |-> h.callerStarted,
         pausesSinceStart |-> IF began THEN 0 ELSE h.pausesSinceStart + PausesFired(o2),
         calibFrom        |-> IF recal THEN now ELSE h.calibFrom,
         calibDone        |-> IF recal THEN FALSE ELSE h.calibDone \/ windowOver,
         speechSince      |-> IF recal THEN FALSE
                              ELSE h.speechSince \/ (o.state # "speaking" /\ o2.state = "speaking"),
         speakFrom        |-> IF o2.state # "speaking" THEN Null
                              ELSE IF o.state # "speaking" THEN Some(now) ELSE h.speakFrom,
         spokeMs          |-> IF began THEN 0
                              ELSE IF o.state = "speaking" /\ o2.state # "speaking"
                                      /\ h.speakFrom # Null
                              THEN now - Val(h.speakFrom) ELSE h.spokeMs,
         earlyBefore      |-> Null,
         passedGate       |-> FALSE,
         analysedAt       |-> h.analysedAt,
         tickGap          |-> Null,
         recalSpeaking    |-> IF op = "recalibrate" /\ o.state = "speaking" THEN TRUE
                              ELSE IF windowOver \/ began \/ op = "stop" THEN FALSE
                              ELSE h.recalSpeaking,
         episodeOpen      |-> IF opening THEN TRUE ELSE IF closing THEN FALSE ELSE h.episodeOpen,
         episodeClean     |-> IF opening THEN TRUE
                              ELSE h.episodeClean /\ o2.state = "silence" /\ ~recal /\ ~began,
         episodeStart     |-> IF opening THEN now ELSE h.episodeStart,
         episodeSeg0      |-> IF opening THEN o.segmentCount ELSE h.episodeSeg0,
         episodePauses    |-> IF opening THEN PausesFired(o2)
                              ELSE IF closing THEN 0
                              ELSE h.episodePauses + PausesFired(o2),
         episodeTicks     |-> IF opening THEN 1
                              ELSE IF closing THEN 0
                              ELSE IF analysed THEN h.episodeTicks + 1 ELSE h.episodeTicks,
         episodeDue       |-> IF opening THEN due ELSE h.episodeDue \/ due,
         burstMs          |-> IF from = Null THEN 0 ELSE now - Val(from),
         burstFrom        |-> IF o2.state = "silence" THEN from ELSE Null ]


----------------------------------------------------------------------------
(* The page: animation frames, promises, media streams *)

Loops(r) == r.queued + r.next

\* requestAnimationFrame(analyze): the callback runs in the next frame
Schedule(r) == [queued |-> r.queued, next |-> r.next + 1, id |-> "next"]

\* cancelAnimationFrame(animationFrameId): the id names the request made last
Cancel(r, o) ==
    IF ~o.animationFrameId THEN r
    ELSE IF r.id = "queued" THEN [r EXCEPT !.queued = @ - 1, !.id = "none"]
    ELSE IF r.id = "next" THEN [r EXCEPT !.next = @ - 1, !.id = "none"]
    ELSE r

\* a new AudioContext replaces the one the instance referred to
Stale(pend) == [i \in 1..Len(pend) |->
                   IF pend[i].ctx = "current" THEN [pend[i] EXCEPT !.ctx = "stale"] ELSE pend[i]]

\* the AudioContext the instance refers to is closed
Closed(pend, o) ==
    IF o.audioContext = "null" THEN pend
    ELSE [i \in 1..Len(pend) |->
             IF pend[i].ctx = "current" THEN [pend[i] EXCEPT !.ctx = "closed"] ELSE pend[i]]

Remove(pend, i) == SubSeq(pend, 1, i - 1) \o SubSeq(pend, i + 1, Len(pend))

\* the effects of stop() on instance o
StopStep(o, pend) ==
    /\ vc' = stop(o)
    /\ raf' = Cancel(raf, o)
    /\ tracksStopped' = IF StopsTracks(o)
                        THEN tracksStopped \cup {Val(o.externalMediaStream)}
                        ELSE tracksStopped
    /\ openContexts' = IF o.audioContext # "null" THEN openContexts - 1 ELSE openContexts
    /\ pendingResume' = Closed(pend, o)

\* the effects of the synchronous part of startWithMediaStream on instance o;
\* thenOwn: voice-capture.js start() sets _ownsMediaStream once the call is over
StartStep(o, mediaStream, suspended, thenOwn) ==
    LET o2 == startWithMediaStream(o, mediaStream, suspended, clock)
        done == ~StartSuspends(o, mediaStream, suspended)
    IN /\ vc' = IF thenOwn /\ done THEN [o2 EXCEPT !.ownsMediaStream = TRUE] ELSE o2
       /\ raf' = IF StartCompletes(o, mediaStream, suspended) THEN Schedule(raf) ELSE raf
       /\ openContexts' = IF o.isRunning \/ mediaStream = Null
                          THEN openContexts ELSE openContexts + 1
       /\ pendingResume' =
             IF o.isRunning \/ mediaStream = Null THEN pendingResume
             ELSE IF suspended
             THEN Append(Stale(pendingResume),
                         [stream |-> mediaStream, ctx |-> "current", thenOwn |-> thenOwn])
             ELSE Stale(pendingResume)

----------------------------------------------------------------------------
(* Actions *)

Init ==
    /\ variant \in {"ts", "js"}
    /\ vc \in {VoiceCaptureNew(c) : c \in Configs \cup {LifecycleConfig, TieConfig}}
    /\ clock = 0
    /\ frameTs = 0
    /\ raf = [queued |-> 0, next |-> 0, id |-> "none"]
    /\ pendingResume = <<>>
    /\ pendingGum = 0
    /\ gumCount = 0
    /\ tracksStopped = {}
    /\ openContexts = 0
    /\ h = HInit
    /\ ad = Null

\* the requests made before a frame begins run in it
FrameQueue(r) ==
    IF r.queued > 0 THEN r
    ELSE [queued |-> r.next, next |-> 0, id |-> IF r.id = "next" THEN "queued" ELSE r.id]

\* One analyze callback runs.  The first callback of a frame comes gap ms after
\* the last callback and brings the frame's timestamp, the other callbacks of the
\* frame get the same timestamp; performance.now() is jitter ms later.
\* byId: the callback is the request animationFrameId names
CallbackStep(byId, rawEnergy, gap, jitter, maxTime) ==
    /\ Loops(raf) > 0
    /\ LET newFrame == raf.queued = 0
           r0 == FrameQueue(raf)
           timestamp == IF newFrame THEN clock + gap ELSE frameTs
           now == (IF newFrame THEN clock + gap ELSE clock) + jitter
           o == Begin(vc)
           o2 == analyze(o, timestamp, now, rawEnergy)
           r == [r0 EXCEPT !.queued = @ - 1, !.id = IF byId THEN "none" ELSE @]
       IN /\ now <= maxTime
          /\ IF byId THEN r0.id = "queued"
                     ELSE r0.queued > (IF r0.id = "queued" THEN 1 ELSE 0)
          /\ frameTs' = timestamp
          /\ clock' = now
          /\ vc' = o2
          /\ raf' = IF Reschedules(o, timestamp) THEN Schedule(r) ELSE r
          /\ h' = [HNext("analyze", o, o2, now, FALSE, FALSE) EXCEPT
                     !.earlyBefore =
                        IF o.isRunning
                              /\ timestamp - o.lastAnalysisTime < o.config.analysisInterval
                        THEN Some(o) ELSE Null,
                     !.passedGate =
                        /\ o.isRunning
                        /\ timestamp - o.lastAnalysisTime >= o.config.analysisInterval
                        /\ o.analyserNode /\ o.timeDomainData,
                     !.window =
                        IF o.state = "calibrating" /\ o2.state = "silence"
                        THEN Some(Append(o.calibrationSamples, rawEnergy)) ELSE Null,
                     !.analysedAt = IF Analysed(o2) THEN Some(timestamp) ELSE @,
                     !.tickGap = IF Analysed(o2) /\ h.analysedAt # Null
                                 THEN Some(timestamp - Val(h.analysedAt)) ELSE Null]
    /\ UNCHANGED <<variant, pendingResume, pendingGum,
                   gumCount, tracksStopped, openContexts>>

\* the callback of a VoiceCapture whose callbacks are the page's own
Callback(byId, rawEnergy, gap, jitter, maxTime) ==
    /\ CallbackStep(byId, rawEnergy, gap, jitter, maxTime)
    /\ UNCHANGED ad

\* the caller calls startWithMediaStream with its own stream (or with one without audio track)
StartWithMediaStream(mediaStream, suspended, maxOps) ==
    /\ h.ops < maxOps
    /\ LET o == Begin(vc)
           done == StartCompletes(o, mediaStream, suspended)
       IN /\ StartStep(o, mediaStream, suspended, FALSE)
          /\ h' = [HNext("startWithMediaStream", o, vc', clock, done, done)
                     EXCEPT !.callerStarted = @ \/ (~o.isRunning /\ mediaStream # Null)]
    /\ UNCHANGED <<ad, variant, clock, frameTs, pendingGum, gumCount, tracksStopped>>

\* resume() of a suspended startWithMediaStream settles; ok: it resolves
Resume(i, ok) ==
    /\ i \in 1..Len(pendingResume)
    /\ ok \/ pendingResume[i].ctx = "closed"
    /\ LET e == pendingResume[i]
           o == Begin(vc)
           o1 == IF o.audioContext = "suspended" /\ e.ctx = "current"
                 THEN [o EXCEPT !.audioContext = "running"] ELSE o
           o2 == startFinish(o1, clock)
           o3 == IF e.thenOwn THEN [o2 EXCEPT !.ownsMediaStream = TRUE] ELSE o2
       IN IF ok
          THEN /\ vc' = o3
               /\ raf' = Schedule(raf)
               /\ pendingResume' = Remove(pendingResume, i)
               /\ h' = HNext("resume", o, vc', clock, TRUE, TRUE)
               /\ UNCHANGED <<tracksStopped, openContexts>>
          ELSE IF e.thenOwn
          THEN \* voice-capture.js start(): catch (error) { this.stop(); throw error; }
               /\ StopStep(o, Remove(pendingResume, i))
               /\ h' = HNext("stop", o, vc', clock, FALSE, FALSE)
          ELSE /\ vc' = fire(o, "throw", 0, 0)
               /\ pendingResume' = Remove(pendingResume, i)
               /\ h' = HNext("reject", o, vc', clock, FALSE, FALSE)
               /\ UNCHANGED <<raf, tracksStopped, openContexts>>
    /\ UNCHANGED <<ad, variant, clock, frameTs, pendingGum, gumCount>>

Stop(maxOps) ==
    /\ h.ops < maxOps
    /\ LET o == Begin(vc)
       IN /\ StopStep(o, pendingResume)
          /\ h' = HNext("stop", o, vc', clock, FALSE, FALSE)
    /\ UNCHANGED <<ad, variant, clock, frameTs, pendingGum, gumCount>>

Recalibrate(maxOps) ==
    /\ h.ops < maxOps
    /\ LET o == Begin(vc)
       IN /\ vc' = recalibrate(o, clock)
          /\ h' = HNext("recalibrate", o, vc', clock, FALSE, o.isRunning)
    /\ UNCHANGED <<ad, variant, clock, frameTs, raf, pendingResume, pendingGum,
                   gumCount, tracksStopped, openContexts>>

UpdateConfig(newConfig, maxOps) ==
    /\ variant = "js"
    /\ h.ops < maxOps
    /\ LET o == Begin(vc)
       IN /\ vc' = updateConfig(o, newConfig)
          /\ h' = HNext("updateConfig", o, vc', clock, FALSE, FALSE)
    /\ UNCHANGED <<ad, variant, clock, frameTs, raf, pendingResume, pendingGum,
                   gumCount, tracksStopped, openContexts>>

\* the deprecated start(), up to await getUserMedia
StartLegacy(maxOps) ==
    /\ h.ops < maxOps
    /\ LET o == Begin(vc)
       IN /\ vc' = IF o.isRunning THEN fire(o, "warn", 0, 0) ELSE o
          /\ pendingGum' = IF o.isRunning THEN pendingGum ELSE pendingGum + 1
          /\ h' = HNext("start", o, vc', clock, FALSE, FALSE)
    /\ UNCHANGED <<ad, variant, clock, frameTs, raf, pendingResume,
                   gumCount, tracksStopped, openContexts>>

\* getUserMedia resolves with a new microphone stream and start() goes on
GumResolve(suspended) ==
    /\ pendingGum > 0
    /\ pendingGum' = pendingGum - 1
    /\ gumCount' = gumCount + 1
    /\ LET o == Begin(vc)
           mic == Some(MicStream(gumCount + 1))
           done == StartCompletes(o, mic, suspended)
       IN /\ IF variant = "ts"
             THEN StartStep([o EXCEPT !.ownsMediaStream = TRUE], mic, suspended, FALSE)
             ELSE StartStep(o, mic, suspended, TRUE)
          /\ h' = HNext("getUserMedia", o, vc', clock, done, done)
    /\ UNCHANGED <<ad, variant, clock, frameTs, tracksStopped>>

\* getUserMedia rejects
GumReject ==
    /\ pendingGum > 0
    /\ pendingGum' = pendingGum - 1
    /\ LET o == Begin(vc)
       IN IF variant = "ts"
          THEN /\ vc' = fire(o, "throw", 0, 0)
               /\ h' = HNext("reject", o, vc', clock, FALSE, FALSE)
               /\ UNCHANGED <<raf, pendingResume, tracksStopped, openContexts>>
          ELSE /\ StopStep(o, pendingResume)
               /\ h' = HNext("stop", o, vc', clock, FALSE, FALSE)
    /\ UNCHANGED <<ad, variant, clock, frameTs, gumCount>>

----------------------------------------------------------------------------
(* RealtimeKitClient (tuned and earlier) and AudioCapture: setInterval engines *)

AdEv(type, o, sil) == [type |-> type, segmentCount |-> o.segmentCount, silenceMs |-> sil]
adFire(o, type, sil) == [o EXCEPT !.fired = Append(@, AdEv(type, o, sil))]

\* kind: "tuned" is the RealtimeKitClient with debounce, "earlier" the one before it
RealtimeKitClientNew(kind, config) ==
    [ kind                 |-> kind,
      pauseDuration        |-> config.pauseDuration,
      calibrationDuration  |-> config.calibrationDuration,
      isConnected          |-> FALSE,
      analyserNode         |-> FALSE,
      analysisInterval     |-> FALSE,
      isSpeaking           |-> FALSE,
      isCalibrating        |-> TRUE,
      smoothedEnergy       |-> 0,
      noiseFloor           |-> 10000,
      segmentCount         |-> 0,
      calibrationStartTime |-> 0,
      silenceStartTime     |-> 0,
      speechStartTime      |-> 0,
      calibrationSamples   |-> <<>>,
      ticks                |-> 0,      \* interval callbacks run so far (observation only)
      ops                  |-> 0,      \* calls made by the page so far (observation only)
      pauses               |-> 0,      \* onPauseDetected invocations so far (observation only)
      aboveSince           |-> Null,   \* first tick of the unbroken run above speechThreshold (observation only)
      belowSince           |-> Null,   \* first tick of the unbroken run below the silence threshold while speaking (observation only)
      before               |-> Null,   \* isSpeaking, isCalibrating, noiseFloor before the last callback (observation only)
      fired                |-> <<>> ]

AudioCaptureNew(config) ==
    [ kind                 |-> "audioCapture",
      pauseDuration        |-> config.pauseDuration,
      calibrationDuration  |-> config.calibrationDuration,
      isRunning            |-> FALSE,
      analyserNode         |-> FALSE,
      analysisInterval     |-> FALSE,
      mediaRecorder        |-> "null",
      isSpeaking           |-> FALSE,
      isCalibrating        |-> TRUE,
      smoothedEnergy       |-> 0,
      noiseFloor           |-> 10000,
      segmentCount         |-> 0,
      calibrationStartTime |-> 0,
      silenceStartTime     |-> 0,
      speechStartTime      |-> 0,
      calibrationSamples   |-> <<>>,
      ticks                |-> 0,      \* interval callbacks run so far (observation only)
      ops                  |-> 0,      \* calls made by the page so far (observation only)
      pauses               |-> 0,      \* onPauseDetected invocations so far (observation only)
      aboveSince           |-> Null,   \* first tick of the unbroken run above speechThreshold (observation only)
      belowSince           |-> Null,   \* first tick of the unbroken run below the silence threshold while speaking (observation only)
      before               |-> Null,   \* isSpeaking, isCalibrating, noiseFloor before the last callback (observation only)
      fired                |-> <<>> ]

\* AudioCapture that records PCM and encodes WAV (debounce 300 ms, no drift of the floor)
AudioCaptureWavNew(config) ==
    [ kind                 |-> "wav",
      pauseDuration        |-> config.pauseDuration,
      calibrationDuration  |-> config.calibrationDuration,
      isRunning            |-> FALSE,
      analyserNode         |-> FALSE,
      analysisInterval     |-> FALSE,
      pcmBuffer            |-> 0,      \* chunks held, counted up to 1
      isSpeaking           |-> FALSE,
      isCalibrating        |-> TRUE,
      smoothedEnergy       |-> 0,
      noiseFloor           |-> 10000,
      segmentCount         |-> 0,
      calibrationStartTime |-> 0,
      silenceStartTime     |-> 0,
      speechStartTime      |-> 0,
      calibrationSamples   |-> <<>>,
      ticks                |-> 0,      \* interval callbacks run so far (observation only)
      ops                  |-> 0,      \* calls made by the page so far (observation only)
      pauses               |-> 0,      \* onPauseDetected invocations so far (observation only)
      aboveSince           |-> Null,   \* first tick of the unbroken run above speechThreshold (observation only)
      belowSince           |-> Null,   \* first tick of the unbroken run below the silence threshold while speaking (observation only)
      before               |-> Null,   \* isSpeaking, isCalibrating, noiseFloor before the last callback (observation only)
      fired                |-> <<>> ]

\* smoothingFactor 0.3 weighs the raw sample
adSmooth(o, rawEnergy) ==
    [o EXCEPT !.smoothedEnergy = (3 * rawEnergy + 7 * o.smoothedEnergy) \div 10]

\* the calibration branch: floor is the minimum floor in 1e-6, num/den the percentile
adCalibrate(o, rawEnergy, now, num, den, floor) ==
    LET samples == Append(o.calibrationSamples, rawEnergy)
        sorted == Sorted(samples)
        percentileIndex == (Len(sorted) * num) \div den
    IN IF now - o.calibrationStartTime >= o.calibrationDuration
       THEN [o EXCEPT !.calibrationSamples = samples,
                      !.noiseFloor = Max(sorted[percentileIndex + 1], floor),
                      !.isCalibrating = FALSE]
       ELSE [o EXCEPT !.calibrationSamples = samples]

\* setupAudioAnalysis of both RealtimeKitClient classes
setupAudioAnalysis(o, now) ==
    [o EXCEPT !.analyserNode = TRUE,
              !.calibrationStartTime = now,
              !.silenceStartTime = now,
              !.speechStartTime = IF o.kind = "tuned" THEN 0 ELSE @,
              !.calibrationSamples = <<>>,
              !.isCalibrating = TRUE,
              !.analysisInterval = TRUE]

\* connect(), with the microphone granted and the meeting joined
connect(o, now) ==
    IF o.isConnected THEN adFire(o, "throw", 0)
    ELSE adFire([setupAudioAnalysis(o, now) EXCEPT !.isConnected = TRUE], "onConnected", 0)

disconnect(o) ==
    adFire([o EXCEPT !.analysisInterval = FALSE, !.analyserNode = FALSE,
                     !.isConnected = FALSE],
           "onDisconnected", 0)

\* RealtimeKitClient.analyzeAudio, tuned: 90th percentile, floor 0.008, debounce 500 ms
analyzeAudioTuned(o, rawEnergy, now) ==
    IF ~o.analyserNode THEN o
    ELSE LET o1 == adSmooth(o, rawEnergy)
             \* the thresholds times ten: hysteresisRatio 2.5 and 1.1
             speechThreshold10 == o1.noiseFloor * 25
             silenceThreshold10 == o1.noiseFloor * 11
             minSpeechDuration == 500
         IN IF o1.isCalibrating THEN adCalibrate(o1, rawEnergy, now, 9, 10, 8000)
            ELSE IF ~o1.isSpeaking /\ 10 * o1.smoothedEnergy > speechThreshold10
            THEN LET o2 == IF o1.speechStartTime = 0
                           THEN [o1 EXCEPT !.speechStartTime = now] ELSE o1
                 IN IF now - o2.speechStartTime >= minSpeechDuration
                    THEN adFire([o2 EXCEPT !.isSpeaking = TRUE, !.silenceStartTime = 0],
                                "onSpeechStart", 0)
                    ELSE o2
            ELSE IF o1.isSpeaking /\ 10 * o1.smoothedEnergy < silenceThreshold10
            THEN LET o2 == IF o1.silenceStartTime = 0
                           THEN [o1 EXCEPT !.silenceStartTime = now] ELSE o1
                     silenceDuration == now - o2.silenceStartTime
                 IN IF silenceDuration >= o2.pauseDuration
                    THEN [adFire([o2 EXCEPT !.isSpeaking = FALSE, !.segmentCount = @ + 1,
                                            !.speechStartTime = 0],
                                 "onPauseDetected", silenceDuration)
                            EXCEPT !.silenceStartTime = 0]
                    ELSE o2
            ELSE IF 10 * o1.smoothedEnergy > silenceThreshold10
            THEN IF o1.isSpeaking THEN [o1 EXCEPT !.silenceStartTime = 0] ELSE o1
            ELSE LET o2 == [o1 EXCEPT !.speechStartTime = 0]
                 IN IF 10 * o2.smoothedEnergy < o2.noiseFloor * 15
                    THEN [o2 EXCEPT !.noiseFloor =
                                (998 * o2.noiseFloor + 2 * o2.smoothedEnergy) \div 1000]
                    ELSE o2

\* the drift of the floor at the end of the two older analysis functions
adaptNoiseFloor(o) ==
    IF ~o.isSpeaking /\ o.smoothedEnergy < o.noiseFloor * 2
    THEN [o EXCEPT !.noiseFloor = (995 * o.noiseFloor + 5 * o.smoothedEnergy) \div 1000]
    ELSE o

\* RealtimeKitClient.analyzeAudio, earlier: 75th percentile, floor 0.005, no debounce
analyzeAudio(o, rawEnergy, now) ==
    IF ~o.analyserNode THEN o
    ELSE LET o1 == adSmooth(o, rawEnergy)
             \* the speech threshold times ten: hysteresisRatio 1.3
             speechThreshold10 == o1.noiseFloor * 13
             silenceThreshold == o1.noiseFloor
         IN IF o1.isCalibrating THEN adCalibrate(o1, rawEnergy, now, 3, 4, 5000)
            ELSE IF ~o1.isSpeaking /\ 10 * o1.smoothedEnergy > speechThreshold10
            THEN adaptNoiseFloor(
                    adFire([o1 EXCEPT !.isSpeaking = TRUE, !.speechStartTime = now,
                                      !.silenceStartTime = 0],
                           "onSpeechStart", 0))
            ELSE IF o1.isSpeaking /\ o1.smoothedEnergy < silenceThreshold
            THEN LET o2 == IF o1.silenceStartTime = 0
                           THEN [o1 EXCEPT !.silenceStartTime = now] ELSE o1
                     silenceDuration == now - o2.silenceStartTime
                 IN IF silenceDuration >= o2.pauseDuration
                    THEN adaptNoiseFloor(
                            [adFire([o2 EXCEPT !.isSpeaking = FALSE, !.segmentCount = @ + 1],
                                    "onPauseDetected", silenceDuration)
                               EXCEPT !.silenceStartTime = 0])
                    ELSE adaptNoiseFloor(o2)
            ELSE IF o1.isSpeaking
            THEN adaptNoiseFloor([o1 EXCEPT !.silenceStartTime = 0])
            ELSE adaptNoiseFloor(o1)

\* AudioCapture.start(), with the microphone granted
AudioCaptureStart(o, now) ==
    IF o.isRunning THEN adFire(o, "throw", 0)
    ELSE [o EXCEPT !.analyserNode = TRUE,
                   !.mediaRecorder = "recording",
                   !.isRunning = TRUE,
                   !.isCalibrating = TRUE,
                   !.calibrationStartTime = now,
                   !.calibrationSamples = <<>>,
                   !.silenceStartTime = now,
                   !.analysisInterval = TRUE]

\* AudioCapture.analyze
AudioCaptureAnalyze(o, rawEnergy, now) ==
    IF ~o.analyserNode THEN o
    ELSE LET o1 == adSmooth(o, rawEnergy)
             \* the speech threshold times ten: hysteresisRatio 1.3
             speechThreshold10 == o1.noiseFloor * 13
             silenceThreshold == o1.noiseFloor
         IN IF o1.isCalibrating THEN adCalibrate(o1, rawEnergy, now, 3, 4, 5000)
            ELSE IF ~o1.isSpeaking /\ 10 * o1.smoothedEnergy > speechThreshold10
            THEN LET o2 == adFire([o1 EXCEPT !.isSpeaking = TRUE, !.speechStartTime = now],
                                  "onSpeechStart", 0)
                 IN adaptNoiseFloor(IF o2.mediaRecorder = "inactive"
                                    THEN [o2 EXCEPT !.mediaRecorder = "recording"] ELSE o2)
            ELSE IF o1.isSpeaking /\ o1.smoothedEnergy < silenceThreshold
            THEN LET o2 == IF o1.silenceStartTime = 0
                              \/ o1.silenceStartTime > o1.speechStartTime
                           THEN [o1 EXCEPT !.silenceStartTime = now] ELSE o1
                     silenceDuration == now - o2.silenceStartTime
                 IN IF silenceDuration >= o2.pauseDuration
                    THEN LET o3 == [o2 EXCEPT !.isSpeaking = FALSE, !.segmentCount = @ + 1,
                                              !.silenceStartTime = now]
                         IN adaptNoiseFloor(
                               IF o3.mediaRecorder = "recording"
                               THEN adFire([o3 EXCEPT !.mediaRecorder = "inactive"],
                                           "mediaRecorderStop", silenceDuration)
                               ELSE o3)
                    ELSE adaptNoiseFloor(o2)
            ELSE IF o1.isSpeaking
            THEN adaptNoiseFloor([o1 EXCEPT !.silenceStartTime = now])
            ELSE adaptNoiseFloor(o1)

\* AudioCapture (WAV).start(), with the microphone granted
AudioCaptureWavStart(o, now) ==
    IF o.isRunning THEN o
    ELSE [o EXCEPT !.analyserNode = TRUE,
                   !.isRunning = TRUE,
                   !.isCalibrating = TRUE,
                   !.calibrationStartTime = now,
                   !.silenceStartTime = now,
                   !.analysisInterval = TRUE]

\* AudioCapture (WAV).finalizeSegment: the callback gets the blob only if PCM was buffered
finalizeSegment(o) ==
    LET o1 == [o EXCEPT !.isSpeaking = FALSE, !.segmentCount = @ + 1,
                        !.speechStartTime = 0, !.silenceStartTime = 0]
        o2 == IF o1.pcmBuffer > 0 THEN adFire(o1, "onPauseDetected", 0) ELSE o1
    IN [o2 EXCEPT !.pcmBuffer = 0]

\* AudioCapture (WAV).analyze
AudioCaptureWavAnalyze(o, rawEnergy, now) ==
    IF ~o.analyserNode THEN o
    ELSE LET o1 == adSmooth(o, rawEnergy)
             \* the thresholds times ten: hysteresisRatio 2.5 and 1.1
             speechThreshold10 == o1.noiseFloor * 25
             silenceThreshold10 == o1.noiseFloor * 11
             minSpeechDuration == 300
         IN IF o1.isCalibrating THEN adCalibrate(o1, rawEnergy, now, 3, 4, 5000)
            ELSE IF ~o1.isSpeaking /\ 10 * o1.smoothedEnergy > speechThreshold10
            THEN LET o2 == IF o1.speechStartTime = 0
                           THEN [o1 EXCEPT !.speechStartTime = now] ELSE o1
                 IN IF now - o2.speechStartTime >= minSpeechDuration
                    THEN adFire([o2 EXCEPT !.isSpeaking = TRUE, !.silenceStartTime = 0,
                                           !.pcmBuffer = 0],
                                "onSpeechStart", 0)
                    ELSE o2
            ELSE IF o1.isSpeaking /\ 10 * o1.smoothedEnergy < silenceThreshold10
            THEN LET o2 == IF o1.silenceStartTime = 0
                           THEN [o1 EXCEPT !.silenceStartTime = now] ELSE o1
                 IN IF now - o2.silenceStartTime >= o2.pauseDuration
                    THEN finalizeSegment(o2) ELSE o2
            ELSE IF 10 * o1.smoothedEnergy > silenceThreshold10
            THEN IF o1.isSpeaking THEN [o1 EXCEPT !.silenceStartTime = 0] ELSE o1
            ELSE o1

\* onaudioprocess of the ScriptProcessorNode: a chunk of PCM is kept while speaking
onaudioprocess(o) ==
    IF ~o.isRunning THEN o
    ELSE IF o.isSpeaking THEN [o EXCEPT !.pcmBuffer = 1] ELSE o

AudioCaptureWavStop(o) ==
    LET o1 == [o EXCEPT !.isRunning = FALSE, !.analysisInterval = FALSE]
        o2 == IF o1.isSpeaking THEN finalizeSegment(o1) ELSE o1
    IN [o2 EXCEPT !.pcmBuffer = 0]

AudioCaptureStop(o) ==
    LET o1 == [o EXCEPT !.isRunning = FALSE, !.analysisInterval = FALSE]
        o2 == IF o1.mediaRecorder = "recording"
              THEN adFire(o1, "mediaRecorderStop", 0) ELSE o1
    IN [o2 EXCEPT !.mediaRecorder = "null", !.analyserNode = FALSE]

\* The engine driven through startWithMediaStream on a context that is running.
\* Both classes behave alike here; updateConfig is a method of voice-capture.js only,
\* so the runs of lib/voice-capture.ts are the ones without an UpdateConfig step.
InitCore == Init /\ variant = "js" /\ vc.config \in Configs

Next ==
    \/ \E rawEnergy \in RawEnergies, gap \in FrameGaps, jitter \in Jitter :
          Callback(TRUE, rawEnergy, gap, jitter, MaxTime)
    \/ StartWithMediaStream(Some(CallerStream), FALSE, MaxOps)
    \/ Stop(MaxOps)
    \/ Recalibrate(MaxOps)
    \/ \E p \in PartialConfigs : UpdateConfig(p, MaxOps)

Spec == InitCore /\ [][Next]_vars

\* the core engine fed with energies on and around its thresholds
InitTie == Init /\ variant = "ts" /\ vc = VoiceCaptureNew(TieConfig)

NextTie ==
    \/ \E rawEnergy \in TieRawEnergies, gap \in LifecycleGaps, jitter \in Jitter :
          Callback(TRUE, rawEnergy, gap, jitter, MaxTieTime)
    \/ StartWithMediaStream(Some(CallerStream), FALSE, MaxTieOps)
    \/ Stop(MaxTieOps)

SpecTie == InitTie /\ [][NextTie]_vars

\* The life cycle of the engine: every way to start it, with the promises it awaits
NextLifecycle ==
    \/ \E byId \in BOOLEAN, rawEnergy \in RawEnergies, gap \in LifecycleGaps,
          jitter \in Jitter :
          Callback(byId, rawEnergy, gap, jitter, MaxLifeTime)
    \/ \E m \in {Null, Some(CallerStream)}, suspended \in BOOLEAN :
          StartWithMediaStream(m, suspended, MaxLifeOps)
    \/ \E i \in 1..Len(pendingResume), ok \in BOOLEAN : Resume(i, ok)
    \/ Stop(MaxLifeOps)
    \/ Recalibrate(MaxLifeOps)
    \/ StartLegacy(MaxLifeOps)
    \/ \E suspended \in BOOLEAN : GumResolve(suspended)
    \/ GumReject

InitLifecycle == Init /\ vc = VoiceCaptureNew(LifecycleConfig)

SpecLifecycle == InitLifecycle /\ [][NextLifecycle]_vars

\* The older engines: connect/start, the interval callback, disconnect/stop
Connect ==
    /\ ad.kind \in {"tuned", "earlier"}
    /\ ad.ops < MaxAdOps
    /\ LET o == [Begin(ad) EXCEPT !.ops = @ + 1]
       IN ad' = connect(o, clock)
    /\ UNCHANGED <<variant, vc, clock, frameTs, raf, pendingResume, pendingGum,
                   gumCount, tracksStopped, openContexts, h>>

Disconnect ==
    /\ ad.kind \in {"tuned", "earlier"}
    /\ ad.ops < MaxAdOps
    /\ LET o == [Begin(ad) EXCEPT !.ops = @ + 1]
       IN ad' = disconnect(o)
    /\ UNCHANGED <<variant, vc, clock, frameTs, raf, pendingResume, pendingGum,
                   gumCount, tracksStopped, openContexts, h>>

\* the invocations of onPauseDetected made by a step are counted
Counted(o2) ==
    [o2 EXCEPT !.pauses = @ + Cardinality({i \in 1..Len(o2.fired) :
                                             o2.fired[i].type = "onPauseDetected"})]

AudioStart ==
    /\ ad.kind \in {"audioCapture", "wav"}
    /\ ad.ops < MaxAdOps
    /\ LET o == [Begin(ad) EXCEPT !.ops = @ + 1]
       IN ad' = IF ad.kind = "wav" THEN AudioCaptureWavStart(o, clock)
                ELSE AudioCaptureStart(o, clock)
    /\ UNCHANGED <<variant, vc, clock, frameTs, raf, pendingResume, pendingGum,
                   gumCount, tracksStopped, openContexts, h>>

AudioStop ==
    /\ ad.kind \in {"audioCapture", "wav"}
    /\ ad.ops < MaxAdOps
    /\ LET o == [Begin(ad) EXCEPT !.ops = @ + 1]
       IN ad' = Counted(IF ad.kind = "wav" THEN AudioCaptureWavStop(o)
                        ELSE AudioCaptureStop(o))
    /\ UNCHANGED <<variant, vc, clock, frameTs, raf, pendingResume, pendingGum,
                   gumCount, tracksStopped, openContexts, h>>

\* the thresholds an engine compares the smoothed energy with, times ten
SpeechThreshold10(o) == o.noiseFloor * (IF o.kind \in {"tuned", "wav"} THEN 25 ELSE 13)
SilenceThreshold10(o) == o.noiseFloor * (IF o.kind \in {"tuned", "wav"} THEN 11 ELSE 10)

\* what a run remembers of a callback: o before it, o2 after it
Observe(o, o2, now) ==
    LET vad == ~o.isCalibrating /\ o.analyserNode
        above == vad /\ ~o.isSpeaking /\ 10 * o2.smoothedEnergy > SpeechThreshold10(o)
        below == vad /\ o.isSpeaking /\ 10 * o2.smoothedEnergy < SilenceThreshold10(o)
    IN [o2 EXCEPT !.aboveSince = IF above THEN (IF o.aboveSince = Null THEN Some(now) ELSE @)
                                 ELSE Null,
                  !.belowSince = IF below THEN (IF o.belowSince = Null THEN Some(now) ELSE @)
                                 ELSE Null,
                  !.before = Some([isSpeaking |-> o.isSpeaking,
                                   isCalibrating |-> o.isCalibrating,
                                   noiseFloor |-> o.noiseFloor])]

\* one callback of the interval, gap ms after the last step
Interval(rawEnergy, gap, maxTicks) ==
    /\ ad.analysisInterval
    /\ ad.ticks < maxTicks
    /\ clock' = clock + gap
    /\ LET o == [Begin(ad) EXCEPT !.ticks = @ + 1]
           o2 == CASE ad.kind = "tuned" -> analyzeAudioTuned(o, rawEnergy, clock')
                   [] ad.kind = "earlier" -> analyzeAudio(o, rawEnergy, clock')
                   [] ad.kind = "wav" -> AudioCaptureWavAnalyze(o, rawEnergy, clock')
                   [] OTHER -> AudioCaptureAnalyze(o, rawEnergy, clock')
       IN ad' = Counted(Observe(o, o2, clock'))
    /\ UNCHANGED <<variant, vc, frameTs, raf, pendingResume, pendingGum,
                   gumCount, tracksStopped, openContexts, h>>

\* the ScriptProcessorNode of the WAV AudioCapture delivers a buffer
AudioProcess ==
    /\ ad.kind = "wav"
    /\ ad.analysisInterval
    /\ ad.pcmBuffer = 0 /\ ad.isSpeaking
    /\ ad' = [onaudioprocess(Begin(ad)) EXCEPT !.before = Null]
    /\ UNCHANGED <<variant, vc, clock, frameTs, raf, pendingResume, pendingGum,
                   gumCount, tracksStopped, openContexts, h>>

\* the page without an engine on it
NoEngine ==
    /\ variant = "ts"
    /\ vc = VoiceCaptureNew(DefaultConfig)
    /\ clock = Epoch
    /\ frameTs = 0
    /\ raf = [queued |-> 0, next |-> 0, id |-> "none"]
    /\ pendingResume = <<>>
    /\ pendingGum = 0
    /\ gumCount = 0
    /\ tracksStopped = {}
    /\ openContexts = 0
    /\ h = HInit

InitAdaptive ==
    /\ variant = "ts"
    /\ vc = VoiceCaptureNew(DefaultConfig)
    /\ clock = Epoch
    /\ frameTs = 0
    /\ raf = [queued |-> 0, next |-> 0, id |-> "none"]
    /\ pendingResume = <<>>
    /\ pendingGum = 0
    /\ gumCount = 0
    /\ tracksStopped = {}
    /\ openContexts = 0
    /\ h = HInit
    /\ ad \in {RealtimeKitClientNew("tuned", AdConfig),
               RealtimeKitClientNew("earlier", AdConfig),
               AudioCaptureNew(AdConfig)}

NextAdaptive ==
    \/ Connect
    \/ Disconnect
    \/ AudioStart
    \/ AudioStop
    \/ \E rawEnergy \in AdRawEnergies, gap \in AdGaps : Interval(rawEnergy, gap, MaxAdTicks)

SpecAdaptive == InitAdaptive /\ [][NextAdaptive]_vars

\* The engines with a debounce: the tuned RealtimeKitClient and the WAV AudioCapture
InitDebounce ==
    /\ NoEngine
    /\ ad \in {RealtimeKitClientNew("tuned", AdConfig), AudioCaptureWavNew(AdConfig)}

NextDebounce ==
    \/ Connect
    \/ Disconnect
    \/ AudioStart
    \/ AudioStop
    \/ AudioProcess
    \/ \E rawEnergy \in DebounceRawEnergies, gap \in DebounceGaps :
          Interval(rawEnergy, gap, MaxDebounceTicks)

SpecDebounce == InitDebounce /\ [][NextDebounce]_vars

\* AudioCapture with the MediaRecorder
InitCapture == NoEngine /\ ad = AudioCaptureNew(AdConfig)

NextCapture ==
    \/ AudioStart
    \/ AudioStop
    \/ \E rawEnergy \in CaptureRawEnergies, gap \in AdGaps :
          Interval(rawEnergy, gap, MaxCaptureTicks)

SpecCapture == InitCapture /\ [][NextCapture]_vars

----------------------------------------------------------------------------
(* Two runs of VoiceCapture on the same frames *)

\* the second run is the record ad.run; both runs get the calls at the same
\* time and every callback with the same frame timestamp and the same samples,
\* and each reads performance.now() itself
InitTwin ==
    /\ variant = "ts"
    /\ vc = VoiceCaptureNew(TwinConfig)
    /\ clock = 0
    /\ frameTs = 0
    /\ raf = [queued |-> 0, next |-> 0, id |-> "none"]
    /\ pendingResume = <<>>
    /\ pendingGum = 0
    /\ gumCount = 0
    /\ tracksStopped = {}
    /\ openContexts = 0
    /\ h = HInit
    /\ ad = [kind |-> "twin", run |-> VoiceCaptureNew(TwinConfig)]

TwinStart ==
    /\ h.ops < MaxTwinOps
    /\ LET o == Begin(vc)
       IN /\ vc' = startWithMediaStream(o, Some(CallerStream), FALSE, frameTs)
          /\ ad' = [ad EXCEPT !.run = startWithMediaStream(Begin(@), Some(CallerStream),
                                                           FALSE, frameTs)]
          /\ h' = HNext("startWithMediaStream", o, vc', frameTs, ~o.isRunning, ~o.isRunning)
    /\ UNCHANGED <<variant, clock, frameTs, raf, pendingResume, pendingGum, gumCount,
                   tracksStopped, openContexts>>

TwinStop ==
    /\ h.ops < MaxTwinOps
    /\ LET o == Begin(vc)
       IN /\ vc' = stop(o)
          /\ ad' = [ad EXCEPT !.run = stop(Begin(@))]
          /\ h' = HNext("stop", o, vc', frameTs, FALSE, FALSE)
    /\ UNCHANGED <<variant, clock, frameTs, raf, pendingResume, pendingGum, gumCount,
                   tracksStopped, openContexts>>

\* one frame: analyze(timestamp) runs in both runs on the same samples
TwinCallback(rawEnergy, gap, jitter, jitter2) ==
    /\ vc.isRunning
    /\ LET timestamp == frameTs + gap
           o == Begin(vc)
       IN /\ timestamp + 1 <= MaxTwinTime
          /\ vc' = analyze(o, timestamp, timestamp + jitter, rawEnergy)
          /\ ad' = [ad EXCEPT !.run = analyze(Begin(@), timestamp, timestamp + jitter2,
                                              rawEnergy)]
          /\ frameTs' = timestamp
          /\ clock' = timestamp + jitter
          /\ h' = HNext("analyze", o, vc', timestamp + jitter, FALSE, FALSE)
    /\ UNCHANGED <<variant, raf, pendingResume, pendingGum, gumCount,
                   tracksStopped, openContexts>>

NextTwin ==
    \/ TwinStart
    \/ TwinStop
    \/ \E rawEnergy \in RawEnergies, gap \in TwinGaps, jitter \in TwinJitter,
          jitter2 \in TwinJitter :
          TwinCallback(rawEnergy, gap, jitter, jitter2)

SpecTwin == InitTwin /\ [][NextTwin]_vars

----------------------------------------------------------------------------
(* The voice session: a RealtimeKitTransport and the VoiceCapture fed by it *)

\* the transport and the calls of the session are the record ad
VoiceSessionNew ==
    [ kind        |-> "session",
      isConnected |-> FALSE,
      mediaStream |-> Null,
      meeting     |-> FALSE,
      connecting  |-> FALSE,   \* session.start() waits for transport.connect()
      leaving     |-> FALSE,   \* session.stop() waits for meeting.leave()
      reported    |-> FALSE,   \* onDisconnected ran since the last session.start() (observation only)
      sending     |-> <<>>,    \* handlers waiting in `await transport.sendControlMessage(...)`
      detected    |-> <<>>,    \* pauses and speech starts the VoiceCapture reported (observation only)
      delivered   |-> <<>>,    \* calls of config.onPauseDetected / config.onSpeechStart (observation only)
      ops         |-> 0 ]      \* calls made by the page so far (observation only)

\* the events the session wraps in a handler of its own
Wrapped == {"onPauseDetected", "onSpeechStart"}

\* the control message of an event
ControlMessage(data) ==
    IF data.type = "onPauseDetected" THEN PauseMessage(data)
    ELSE [type |-> "SPEECH_START"]

\* the session's onPauseDetected / onSpeechStart up to its await: with the
\* transport connected it waits for chat.sendTextMessage, otherwise it calls
\* the caller's callback at once
handler(a, data) ==
    LET a1 == [a EXCEPT !.detected = Append(@, data)]
    IN IF a.isConnected /\ a.meeting
       THEN [a1 EXCEPT !.sending = Append(@, [data |-> data, message |-> ControlMessage(data)])]
       ELSE [a1 EXCEPT !.delivered = Append(@, data)]

\* the callbacks one analyze made, in the order it made them
RECURSIVE handlers(_, _)
handlers(a, fired) ==
    IF fired = <<>> THEN a
    ELSE handlers(IF Head(fired).type \in Wrapped THEN handler(a, Head(fired)) ELSE a,
                  Tail(fired))

\* sendTextMessage of a waiting handler settles.  ok: it resolves and the
\* handler goes on to the caller's callback; otherwise sendControlMessage
\* rethrows and the handler ends there
sendSettles(a, i, ok) ==
    LET w == a.sending[i]
        rest == [a EXCEPT !.sending = SubSeq(@, 1, i - 1) \o SubSeq(@, i + 1, Len(@))]
    IN IF ok
       THEN [rest EXCEPT !.delivered = Append(@, w.data)]
       ELSE rest

InitSession ==
    /\ variant = "ts"
    /\ vc = VoiceCaptureNew(LifecycleConfig)
    /\ clock = 0
    /\ frameTs = 0
    /\ raf = [queued |-> 0, next |-> 0, id |-> "none"]
    /\ pendingResume = <<>>
    /\ pendingGum = 0
    /\ gumCount = 0
    /\ tracksStopped = {}
    /\ openContexts = 0
    /\ h = HInit
    /\ ad = VoiceSessionNew

\* session.start() up to its first await
SessionStart ==
    /\ ad.ops < MaxSessionOps
    /\ ~ad.connecting
    /\ ad' = [ad EXCEPT !.connecting = TRUE, !.reported = FALSE, !.ops = @ + 1]
    /\ UNCHANGED <<variant, vc, clock, frameTs, raf, pendingResume, pendingGum, gumCount,
                   tracksStopped, openContexts, h>>

\* transport.connect() completes and session.start() goes on to
\* voiceCapture.startWithMediaStream(transport.getMediaStream())
ConnectDone(suspended) ==
    /\ ad.connecting
    /\ ad' = [ad EXCEPT !.connecting = FALSE, !.meeting = TRUE, !.isConnected = TRUE,
                        !.mediaStream = Some(CallerStream)]
    /\ LET o == Begin(vc)
           done == StartCompletes(o, Some(CallerStream), suspended)
       IN /\ StartStep(o, Some(CallerStream), suspended, FALSE)
          /\ h' = HNext("startWithMediaStream", o, vc', clock, done, done)
    /\ UNCHANGED <<variant, clock, frameTs, pendingGum, gumCount, tracksStopped>>

\* the roomLeft event of the meeting: the transport reports the disconnection
\* and the session stops a running capture
RoomLeft ==
    /\ ad.meeting
    /\ ad.isConnected
    /\ ad' = [ad EXCEPT !.isConnected = FALSE, !.mediaStream = Null, !.reported = TRUE]
    /\ IF vc.isRunning
       THEN LET o == Begin(vc)
            IN /\ StopStep(o, pendingResume)
               /\ h' = HNext("stop", o, vc', clock, FALSE, FALSE)
       ELSE UNCHANGED <<vc, raf, tracksStopped, openContexts, pendingResume, h>>
    /\ UNCHANGED <<variant, clock, frameTs, pendingGum, gumCount>>

\* session.stop() up to the await of meeting.leave()
SessionStop ==
    /\ ad.ops < MaxSessionOps
    /\ ~ad.leaving
    /\ ad' = [ad EXCEPT !.leaving = TRUE, !.ops = @ + 1]
    /\ IF vc.isRunning
       THEN LET o == Begin(vc)
            IN /\ StopStep(o, pendingResume)
               /\ h' = HNext("stop", o, vc', clock, FALSE, FALSE)
       ELSE UNCHANGED <<vc, raf, tracksStopped, openContexts, pendingResume, h>>
    /\ UNCHANGED <<variant, clock, frameTs, pendingGum, gumCount>>

\* meeting.leave() settles and transport.disconnect() finishes
LeaveDone ==
    /\ ad.leaving
    /\ ad' = [ad EXCEPT !.leaving = FALSE, !.meeting = FALSE, !.isConnected = FALSE,
                        !.mediaStream = Null]
    /\ UNCHANGED <<variant, vc, clock, frameTs, raf, pendingResume, pendingGum, gumCount,
                   tracksStopped, openContexts, h>>

\* one analyze callback of the session's VoiceCapture
SessionCallback(rawEnergy, gap, jitter) ==
    /\ CallbackStep(TRUE, rawEnergy, gap, jitter, MaxSessionTime)
    /\ ad' = handlers(ad, vc'.fired)

SendSettles(i, ok) ==
    /\ ad' = sendSettles(ad, i, ok)
    /\ UNCHANGED <<variant, vc, clock, frameTs, raf, pendingResume, pendingGum, gumCount,
                   tracksStopped, openContexts, h>>

NextSession ==
    \/ SessionStart
    \/ \E suspended \in BOOLEAN : ConnectDone(suspended)
    \/ RoomLeft
    \/ SessionStop
    \/ LeaveDone
    \/ \E i \in 1..Len(pendingResume), ok \in BOOLEAN : Resume(i, ok)
    \/ \E i \in 1..Len(ad.sending), ok \in BOOLEAN : SendSettles(i, ok)
    \/ \E rawEnergy \in RawEnergies, gap \in LifecycleGaps, jitter \in Jitter :
          SessionCallback(rawEnergy, gap, jitter)

SpecSession == InitSession /\ [][NextSession]_vars

----------------------------------------------------------------------------
(* Properties of VoiceCapture *)

PauseEvents == { vc.fired[i] : i \in Fired(vc, "onPauseDetected") }
SpeechEvents == { vc.fired[i] : i \in Fired(vc, "onSpeechStart") }
Released == Fired(vc, "disconnect") \cup Fired(vc, "close") \cup Fired(vc, "trackStop")

\* C1: within one silence episode (from a Speaking->Silence transition to the
\* next Silence->Speaking transition) onPauseDetected is invoked at most once,
\* however many ticks the silence lasts, and segmentCount has grown by exactly
\* the number of invocations, so by one per episode in which the pause fired.
SingleFirePause ==
    /\ PausesFired(vc) <= 1
    /\ h.episodeOpen =>
          /\ h.episodePauses <= 1
          /\ vc.segmentCount = h.episodeSeg0 + h.episodePauses
          /\ vc.pauseTriggered <=> h.episodePauses = 1

\* the pause of an episode has fired and a later silent tick of it was analysed
SingleFirePauseWitness ==
    /\ h.episodeOpen /\ h.episodePauses = 1
    /\ h.lastOp = "analyze" /\ Analysed(vc) /\ PausesFired(vc) = 0
    /\ vc.state = "silence" /\ h.prevState = "silence"
    /\ clock - Val(vc.silenceStartTime) > vc.config.pauseDuration

\* C2: onSpeechStart is invoked only when the energy has been above
\* speechThreshold for at least speechMinDuration; a shorter burst leaves the
\* state in Silence.
SpeechDebounce ==
    /\ SpeechEvents # {} => h.burstMs >= vc.config.speechMinDuration
    /\ (h.prevState = "silence" /\ vc.state = "speaking")
          => h.burstMs >= vc.config.speechMinDuration

\* C3: speechThreshold is strictly greater than effectiveThreshold in every
\* state of the instance.
HysteresisGap == vc.speechThreshold > vc.effectiveThreshold

\* C4: an instance driven only through startWithMediaStream(stream), ticks,
\* recalibrate and stop never stops a track of the caller's stream; its stop()
\* releases nothing but the source node and the AudioContext.
CallerOwnsStream ==
    ~h.legacyStart =>
        /\ CallerStream \notin tracksStopped
        /\ Fired(vc, "trackStop") = {}

\* started on the caller's stream, calibrated, then stopped: node and context released
CallerOwnsStreamWitness ==
    /\ h.callerStarted /\ ~h.legacyStart /\ h.calibDone
    /\ h.lastOp = "stop" /\ h.stopRun = 1
    /\ Fired(vc, "disconnect") # {} /\ Fired(vc, "close") # {}
    /\ openContexts = 0

\* C5: the second of two consecutive stop() calls throws nothing and releases
\* nothing, and isRunning is false from the first call on.
StopIdempotent ==
    /\ h.stopRun >= 1 => ~vc.isRunning /\ vc.state = "idle"
    /\ h.stopRun = 2 => Released = {} /\ Fired(vc, "throw") = {}
                          /\ Fired(vc, "cancelAnimationFrame") = {}

\* a running, calibrated engine was stopped twice in a row
StopIdempotentWitness ==
    /\ h.stopRun = 2 /\ h.calibDone /\ h.callerStarted
    /\ openContexts = 0 /\ vc.audioContext = "null"

\* C6: recalibrate() called in Speaking puts the state to Calibrating at once,
\* and until a tick completes the new calibration window neither onSpeechStart
\* nor onPauseDetected is invoked.
RecalibrateWhileSpeaking ==
    h.recalSpeaking =>
        /\ vc.state = "calibrating"
        /\ SpeechEvents = {} /\ PauseEvents = {}

\* a loud tick was analysed inside the window opened by recalibrate()
RecalibrateWhileSpeakingWitness ==
    /\ h.recalSpeaking /\ h.lastOp = "analyze" /\ Analysed(vc)
    /\ vc.smoothedEnergy > vc.speechThreshold
    /\ Len(vc.calibrationSamples) >= 1

\* C7: between a start and the next stop or start segmentCount only grows, by
\* one at each onPauseDetected and by nothing else; the k-th invocation since
\* the start carries segmentCount k.
SegmentCounter ==
    /\ vc.isRunning => vc.segmentCount = h.pausesSinceStart
    /\ \A e \in PauseEvents : e.segmentCount = h.pausesSinceStart
    /\ PausesFired(vc) <= 1

\* the second pause since the start has just fired
SegmentCounterWitness ==
    /\ PausesFired(vc) = 1 /\ h.pausesSinceStart = 2 /\ vc.segmentCount = 2

\* C8: after a Speaking->Silence transition at t0 followed only by ticks that
\* stay in Silence, onPauseDetected is invoked exactly once, on the first
\* analysed tick with now - t0 >= pauseDuration and on none before; the first
\* invocation after a start carries segmentCount 1.
PauseTiming ==
    /\ h.episodeClean => h.episodePauses = (IF h.episodeDue THEN 1 ELSE 0)
    /\ \A e \in PauseEvents :
          /\ e.silenceMs >= vc.config.pauseDuration
          /\ h.pausesSinceStart = 1 => e.segmentCount = 1

\* the pause fired on a tick exactly pauseDuration after t0, after an earlier
\* tick of the same silence that was too early
PauseTimingWitness ==
    /\ h.episodeClean /\ h.episodeTicks >= 3 /\ PausesFired(vc) = 1
    /\ \E e \in PauseEvents : e.silenceMs = vc.config.pauseDuration /\ e.segmentCount = 1

\* C10: Silence and Speaking are entered only after a calibration window has
\* completed; Idle is left only for Calibrating, and Calibrating only for
\* Silence, by the tick that ends the window, or for Idle, by stop().
ThroughCalibrating ==
    /\ vc.state \in {"silence", "speaking"} => h.calibDone
    /\ h.prevState = "idle" => vc.state \in {"idle", "calibrating"}
    /\ h.prevState = "calibrating" => vc.state \in {"calibrating", "silence", "idle"}
    /\ (h.prevState = "calibrating" /\ vc.state = "silence") =>
          h.lastOp = "analyze" /\ clock - h.calibFrom >= vc.config.calibrationDuration
    /\ (h.prevState = "calibrating" /\ vc.state = "idle") => h.lastOp = "stop"
    /\ (h.prevState # "calibrating" /\ vc.state = "calibrating") =>
          h.lastOp \in {"startWithMediaStream", "resume", "getUserMedia", "recalibrate"}

\* the tick that ends the calibration window of a start that waited for resume()
ThroughCalibratingWitness ==
    /\ h.prevState = "calibrating" /\ vc.state = "silence"
    /\ h.lastOp = "analyze" /\ h.calibDone

\* C11: stop() in any state leaves the instance idle and not running, with the
\* silence start time, the last speech time, the pause-fired flag and the
\* calibration samples holding nothing from before the stop.
StopDiscardsRecords ==
    h.lastOp = "stop" =>
        /\ vc.state = "idle" /\ ~vc.isRunning
        /\ vc.silenceStartTime = Null /\ vc.lastSpeechTime = Null
        /\ ~vc.pauseTriggered
        /\ vc.calibrationSamples = <<>>

\* C15: what was recorded before recalibrate() (silence start, last speech
\* time, pause-fired flag) does not count afterwards: onPauseDetected fires only
\* for speech detected after the last start or recalibrate, with a silence
\* measured from after it.
NothingAcrossRecalibration ==
    \A e \in PauseEvents :
        /\ h.speechSince
        /\ e.silenceMs <= clock - h.calibFrom

\* C16: a configuration with hysteresisRatio <= 1 or a negative pauseDuration,
\* speechMinDuration or calibrationDuration is rejected by the constructor and
\* by updateConfig, so no instance ever holds one.
InvalidConfigRejected ==
    /\ vc.config.hysteresisRatio > 10
    /\ vc.config.pauseDuration >= 0
    /\ vc.config.speechMinDuration >= 0
    /\ vc.config.calibrationDuration >= 0

\* C17: onPauseDetected fires only when the speech before the silence stayed
\* in Speaking for at least speechMinDuration.
PauseNeedsMinSpeech ==
    PauseEvents # {} => h.spokeMs >= vc.config.speechMinDuration

\* C18: the silenceDuration of every pause event, and of the PAUSE control
\* message made from it, is a number of milliseconds and at least pauseDuration.
SilenceDurationInMs ==
    \A e \in PauseEvents :
        LET d == PauseMessage(e).silenceDuration
        IN /\ d = e.silenceDuration
           /\ d.num >= vc.config.pauseDuration * d.den

\* C19: an instance started with the deprecated start() owns the microphone
\* stream it acquired: stop() on the running instance stops the tracks of that
\* stream (the caller starts the instance through start() only).
LegacyStopStopsMic ==
    (~h.callerStarted /\ h.stoppedStream # Null) =>
        /\ Val(h.stoppedStream) \in tracksStopped
        /\ Fired(vc, "trackStop") # {}

\* C20: a loop callback that comes less than analysisInterval after the last
\* analysed timestamp changes none of the energies, thresholds, VAD state,
\* times, flags, counters and samples and fires no callback; two consecutive
\* analysed ticks are at least analysisInterval apart.
GateFields ==
    { "smoothedEnergy", "peakEnergy", "noiseFloor", "effectiveThreshold",
      "speechThreshold", "state", "stateStartTime", "silenceStartTime",
      "lastSpeechTime", "pauseTriggered", "segmentCount", "calibrationSamples",
      "lastAnalysisTime" }

AnalysisGate ==
    /\ h.earlyBefore # Null =>
          /\ \A f \in GateFields : vc[f] = Val(h.earlyBefore)[f]
          /\ vc.fired = <<>>
    /\ h.tickGap # Null => Val(h.tickGap) >= vc.config.analysisInterval

AnalysisGateWitness ==
    /\ h.earlyBefore # Null
    /\ vc.state = "speaking"
    /\ h.analysedAt # Null

\* C21: every callback of a running instance that goes on to the analysis fires
\* onEnergyUpdate exactly once, in whatever state and with or without a
\* transition, reporting the state the tick left the instance in; a callback
\* that does not analyse fires none.
EnergyUpdateEveryTick ==
    h.lastOp = "analyze" =>
        IF h.passedGate
        THEN /\ Cardinality(Fired(vc, "onEnergyUpdate")) = 1
             /\ \A i \in Fired(vc, "onEnergyUpdate") :
                   /\ vc.fired[i].state = vc.state
                   /\ vc.fired[i].isSpeaking = (vc.state = "speaking")
                   /\ vc.fired[i].energy = vc.smoothedEnergy
        ELSE Fired(vc, "onEnergyUpdate") = {}

EnergyUpdateEveryTickWitness ==
    /\ h.lastOp = "analyze" /\ h.passedGate
    /\ h.prevState = "calibrating" /\ vc.state = "silence"
    /\ Cardinality(Fired(vc, "onEnergyUpdate")) = 1

\* C22: a smoothed energy equal to a threshold does not exceed it: in Silence a
\* tick with energy = speechThreshold starts no speech, in Speaking a tick with
\* energy = effectiveThreshold ends the speech.
TiePolicy ==
    (h.lastOp = "analyze" /\ h.passedGate) =>
        /\ (h.prevState = "silence" /\ vc.smoothedEnergy = vc.speechThreshold) =>
              /\ vc.state = "silence"
              /\ Fired(vc, "onSpeechStart") = {}
        /\ (h.prevState = "speaking" /\ vc.smoothedEnergy = vc.effectiveThreshold) =>
              vc.state = "silence"

TiePolicyWitness ==
    /\ h.lastOp = "analyze" /\ h.passedGate
    /\ h.prevState = "speaking"
    /\ vc.smoothedEnergy = vc.effectiveThreshold
    /\ vc.state = "silence"

\* C23: two runs with the same configuration that are given the same calls and
\* the same frames (samples and frame timestamps) are in the same state after
\* every tick and have fired the same onSpeechStart and onPauseDetected events
\* with the same segment counts.
EventsOf(o) ==
    [i \in 1..Len(o.fired) |->
        IF o.fired[i].type \in {"onSpeechStart", "onPauseDetected"}
        THEN <<o.fired[i].type, o.fired[i].segmentCount>>
        ELSE <<"other", 0>>]

Determinism ==
    ad.kind = "twin" =>
        /\ ad.run.state = vc.state
        /\ ad.run.segmentCount = vc.segmentCount
        /\ EventsOf(ad.run) = EventsOf(vc)

\* C24: an analysed tick in Calibrating ends in Silence when
\* now - stateStartTime >= calibrationDuration and stays in Calibrating
\* otherwise, so the first such tick ends the calibration; no other step takes
\* the instance from Calibrating to Silence.
CalibrationEnds ==
    LET elapsed == clock - h.prevStateStart
        tick == h.lastOp = "analyze" /\ h.passedGate
    IN h.prevState = "calibrating" =>
          /\ tick => vc.state = (IF elapsed >= vc.config.calibrationDuration
                                 THEN "silence" ELSE "calibrating")
          /\ vc.state = "silence" =>
                tick /\ elapsed >= vc.config.calibrationDuration

CalibrationEndsWitness ==
    /\ h.lastOp = "analyze" /\ h.passedGate
    /\ h.prevState = "calibrating" /\ vc.state = "silence"
    /\ clock - h.prevStateStart > vc.config.calibrationDuration
    /\ h.prevStateStart > 0

\* C26: after the calibration the noise floor of VoiceCapture follows the
\* silence: an analysed tick that stays in Silence with a smoothed energy other
\* than the floor moves noiseFloor toward that energy.
FloorFollowsSilence ==
    (h.lastOp = "analyze" /\ h.passedGate
        /\ h.prevState = "silence" /\ vc.state = "silence"
        /\ vc.smoothedEnergy # h.prevNoiseFloor) =>
        IF vc.smoothedEnergy > h.prevNoiseFloor
        THEN vc.noiseFloor > h.prevNoiseFloor /\ vc.noiseFloor <= vc.smoothedEnergy
        ELSE vc.noiseFloor < h.prevNoiseFloor /\ vc.noiseFloor >= vc.smoothedEnergy

\* C27: a calibration window finished with n >= 1 samples leaves
\* noiseFloor = max(s[floor(n/2)], 0.001) for the samples s in ascending order,
\* effectiveThreshold = max(noiseFloor * noiseMargin, silenceThreshold),
\* speechThreshold = effectiveThreshold * hysteresisRatio and no samples.
OrderStatistic(s, k) ==
    CHOOSE v \in {s[i] : i \in 1..Len(s)} :
        /\ Cardinality({i \in 1..Len(s) : s[i] < v}) <= k
        /\ Cardinality({i \in 1..Len(s) : s[i] <= v}) > k

CalibrationResult ==
    h.window # Null =>
        LET s == Val(h.window)
            n == Len(s)
            candidate == OrderStatistic(s, n \div 2)
            floor == IF candidate > 1 THEN candidate ELSE 1
            scaled == (floor * vc.config.noiseMargin) \div 10
            threshold == IF scaled > vc.config.silenceThreshold
                         THEN scaled ELSE vc.config.silenceThreshold
        IN /\ n >= 1
           /\ vc.noiseFloor = floor
           /\ vc.effectiveThreshold = threshold
           /\ vc.speechThreshold = (threshold * vc.config.hysteresisRatio) \div 10
           /\ vc.calibrationSamples = <<>>

CalibrationResultWitness ==
    /\ h.window # Null
    /\ Len(Val(h.window)) >= 2
    /\ Val(h.window)[1] > Val(h.window)[Len(Val(h.window))]
    /\ vc.noiseFloor > 1
    /\ vc.effectiveThreshold > vc.config.silenceThreshold

\* C28: whatever the interleaving of startWithMediaStream calls, resumptions
\* and stop(), an instance has at most one open AudioContext and at most one
\* analysis loop scheduled (the caller does not use start()).
SinglePipeline ==
    ~h.legacyStart =>
        /\ openContexts <= 1
        /\ Loops(raf) <= 1

\* C29: stop() wins over a start that is waiting for resume(): from the return
\* of stop() until the next start call the instance is idle and not running
\* (the caller does not use start()).
StopWins ==
    (h.stopLast /\ ~h.legacyStart) =>
        /\ ~vc.isRunning
        /\ vc.state = "idle"

\* C32: in voice-capture.js, once a calibration has completed and whatever
\* updateConfig calls were made, effectiveThreshold =
\* max(noiseFloor * noiseMargin, silenceThreshold) and speechThreshold =
\* effectiveThreshold * hysteresisRatio for the configuration the instance
\* holds.
ThresholdsFollowConfig ==
    (variant = "js" /\ h.calibDone) =>
        /\ vc.effectiveThreshold = ThresholdFor(vc.noiseFloor, vc.config)
        /\ vc.speechThreshold = Times10(vc.effectiveThreshold, vc.config.hysteresisRatio)

\* C34: as long as no speech has started since the engine was started
\* (lastSpeechTime is null), no onPauseDetected fires, segmentCount is 0 and
\* pauseTriggered is false, however long the silence after the calibration
\* lasts.
NoPauseBeforeSpeech ==
    vc.lastSpeechTime = Null =>
        /\ PauseEvents = {}
        /\ vc.segmentCount = 0
        /\ ~vc.pauseTriggered

\* a tick in a silence that began after the calibration and has lasted
\* pauseDuration, with no speech since the start
NoPauseBeforeSpeechWitness ==
    /\ h.lastOp = "analyze" /\ h.passedGate
    /\ vc.isRunning /\ vc.state = "silence"
    /\ vc.lastSpeechTime = Null
    /\ vc.silenceStartTime # Null
    /\ clock - Val(vc.silenceStartTime) >= vc.config.pauseDuration

----------------------------------------------------------------------------
(* Properties of the older engines *)

MinimumNoiseFloor == IF ad.kind = "tuned" THEN 8000 ELSE 5000

\* C9: once calibration has completed, the noiseFloor of RealtimeKitClient and
\* of AudioCapture stays at or above the minimum floor (0.008 in the tuned
\* RealtimeKitClient, 0.005 in the earlier one and in AudioCapture), whatever
\* samples the drift during silence is fed.
NoiseFloorBound == ~ad.isCalibrating => ad.noiseFloor >= MinimumNoiseFloor

AdFired(type) == { i \in 1..Len(ad.fired) : ad.fired[i].type = type }
MinSpeechDuration == IF ad.kind = "tuned" THEN 500 ELSE 300
BecameSpeaking == ad.before # Null /\ ~Val(ad.before).isSpeaking /\ ad.isSpeaking

\* C12: in the engines with a debounce (RealtimeKitClient 500 ms, WAV
\* AudioCapture 300 ms) speech is confirmed, and onSpeechStart fired, only when
\* the smoothed energy has been above speechThreshold on every analysed tick
\* of a run that is at least minSpeechDuration long; a tick at or below the
\* threshold discards the candidate.
ContinuousDebounce ==
    (AdFired("onSpeechStart") # {} \/ BecameSpeaking) =>
        /\ ad.aboveSince # Null
        /\ clock - Val(ad.aboveSince) >= MinSpeechDuration

\* C13: in the AudioCapture with the MediaRecorder, once speech has started and
\* the smoothed energy has stayed below the silence threshold on every tick for
\* at least pauseDuration, the pause is detected: isSpeaking is false and
\* segmentCount has been incremented.
PauseAfterSilence ==
    (ad.kind = "audioCapture" /\ ad.belowSince # Null
        /\ clock - Val(ad.belowSince) >= ad.pauseDuration) =>
        /\ ~ad.isSpeaking
        /\ ad.segmentCount >= 1

\* C14: in the tuned RealtimeKitClient a tick processed while isSpeaking is
\* true leaves noiseFloor as it was, also when the smoothed energy is exactly
\* the silence threshold.
FloorFrozenInSpeech ==
    (ad.kind = "tuned" /\ ad.before # Null
        /\ Val(ad.before).isSpeaking /\ ~Val(ad.before).isCalibrating) =>
        ad.noiseFloor = Val(ad.before).noiseFloor

\* C25: in the WAV AudioCapture segmentCount equals the number of
\* onPauseDetected invocations made since the instance was created.
SegmentPerPause ==
    ad.kind = "wav" => ad.segmentCount = ad.pauses

\* the last tick detected a pause
PauseDetectedNow == ad.before # Null /\ Val(ad.before).isSpeaking /\ ~ad.isSpeaking

\* C33: the AudioCapture with the MediaRecorder detects a pause (isSpeaking
\* cleared, segmentCount incremented, recording stopped) only on a tick at
\* which the smoothed energy has been below the silence threshold on every
\* tick since speech for at least pauseDuration.
SilenceBeforePause ==
    (ad.kind = "audioCapture" /\ PauseDetectedNow) =>
        /\ ad.belowSince # Null
        /\ clock - Val(ad.belowSince) >= ad.pauseDuration

----------------------------------------------------------------------------
(* Properties of the voice session *)

\* C30: once the transport has reported the disconnection and every pending
\* step of the session has finished, the VoiceCapture of the session is not
\* running.
TeardownOnDisconnect ==
    (ad.kind = "session" /\ ad.reported
        /\ ~ad.connecting /\ ~ad.leaving /\ pendingResume = <<>>) =>
        ~vc.isRunning

\* the number of times e occurs in the sequence s
Occurrences(s, e) == Cardinality({ i \in 1..Len(s) : s[i] = e })

\* C31: once no handler of the session waits for a control message to be
\* sent, every pause and every speech start the session's VoiceCapture has
\* reported was passed to the caller's config.onPauseDetected /
\* config.onSpeechStart exactly once.
ForwardedOnce ==
    (ad.kind = "session" /\ ad.sending = <<>>) =>
        \A e \in { ad.detected[i] : i \in 1..Len(ad.detected) } :
            Occurrences(ad.delivered, e) = Occurrences(ad.detected, e)

====
